---- MODULE Spec2Model ----
(***************************************************************************)
(* Settlement accounting engine of splitup (server/routes.ts): banker's    *)
(* rounding on IEEE-754 doubles, split-period resolution, the expense and  *)
(* asset-buyback calculators, and the derived ledger of owed lines.        *)
(*                                                                         *)
(* Money is held in whole cents and percentages in hundredths of a         *)
(* percent, which is what the decimal(10,2) and decimal(5,2) columns of    *)
(* the schema store.  The arithmetic between a parseFloat of such a column *)
(* and the string written back is JavaScript Number arithmetic, modelled   *)
(* bit-exactly: every operation rounds to a 53-bit significand, ties to    *)
(* even.                                                                   *)
(***************************************************************************)
EXTENDS Integers, Sequences, FiniteSets, TLC

(***************************************************************************)
(* Natural numbers of arbitrary size: little-endian sequences of limbs.    *)
(* They carry the significands of doubles and their exact products.        *)
(***************************************************************************)
LimbBits == 15
Base == 2^LimbBits

RECURSIVE BNorm(_)
BNorm(a) ==
    IF a = <<>> THEN <<>>
    ELSE IF a[Len(a)] = 0 THEN BNorm(SubSeq(a, 1, Len(a) - 1))
    ELSE a

RECURSIVE BFromInt(_)
BFromInt(n) ==
    IF n = 0 THEN <<>> ELSE <<n % Base>> \o BFromInt(n \div Base)

RECURSIVE BToInt(_)
BToInt(a) ==
    IF a = <<>> THEN 0 ELSE Head(a) + Base * BToInt(Tail(a))

RECURSIVE BMulSmallC(_, _, _)
BMulSmallC(a, k, carry) ==
    IF a = <<>> THEN BFromInt(carry)
    ELSE LET t == Head(a) * k + carry
         IN  <<t % Base>> \o BMulSmallC(Tail(a), k, t \div Base)

BMulSmall(a, k) == BNorm(BMulSmallC(a, k, 0))

RECURSIVE BAddC(_, _, _)
BAddC(a, b, carry) ==
    IF a = <<>> /\ b = <<>> THEN BFromInt(carry)
    ELSE LET x == IF a = <<>> THEN 0 ELSE Head(a)
             y == IF b = <<>> THEN 0 ELSE Head(b)
             t == x + y + carry
         IN  <<t % Base>>
               \o BAddC(IF a = <<>> THEN <<>> ELSE Tail(a),
                        IF b = <<>> THEN <<>> ELSE Tail(b), t \div Base)

BAdd(a, b) == BNorm(BAddC(a, b, 0))

\* a - b for a >= b
RECURSIVE BSubC(_, _, _)
BSubC(a, b, borrow) ==
    IF a = <<>> THEN <<>>
    ELSE LET y == IF b = <<>> THEN 0 ELSE Head(b)
             t == Head(a) - y - borrow
         IN  <<t % Base>>
               \o BSubC(Tail(a), IF b = <<>> THEN <<>> ELSE Tail(b),
                        IF t < 0 THEN 1 ELSE 0)

BSub(a, b) == BNorm(BSubC(a, b, 0))

RECURSIVE BMul(_, _)
BMul(a, b) ==
    IF b = <<>> \/ a = <<>> THEN <<>>
    ELSE BAdd(BMulSmallC(a, Head(b), 0), <<0>> \o BMul(a, Tail(b)))

\* quotient and remainder of a by a divisor below Base
RECURSIVE BDivSmallR(_, _)
BDivSmallR(a, d) ==
    IF a = <<>> THEN [q |-> <<>>, r |-> 0]
    ELSE LET hi  == BDivSmallR(Tail(a), d)
             cur == hi.r * Base + Head(a)
         IN  [q |-> <<cur \div d>> \o hi.q, r |-> cur % d]

BDivSmall(a, d) ==
    LET qr == BDivSmallR(a, d) IN [q |-> BNorm(qr.q), r |-> qr.r]

RECURSIVE IntBitLen(_)
IntBitLen(n) == IF n = 0 THEN 0 ELSE 1 + IntBitLen(n \div 2)

BBitLen(a) ==
    IF a = <<>> THEN 0 ELSE LimbBits * (Len(a) - 1) + IntBitLen(a[Len(a)])

\* -1, 0, 1 as a < b, a = b, a > b (both normalised)
RECURSIVE BCmp(_, _)
BCmp(a, b) ==
    IF Len(a) # Len(b) THEN (IF Len(a) < Len(b) THEN -1 ELSE 1)
    ELSE IF a = <<>> THEN 0
    ELSE LET n == Len(a)
         IN  IF a[n] # b[n] THEN (IF a[n] < b[n] THEN -1 ELSE 1)
             ELSE BCmp(SubSeq(a, 1, n - 1), SubSeq(b, 1, n - 1))

Zeros(n) == [i \in 1..n |-> 0]

\* a * 2^s
BShl(a, s) ==
    IF a = <<>> THEN <<>>
    ELSE Zeros(s \div LimbBits) \o BMulSmall(a, 2^(s % LimbBits))

\* a \div 2^s and a % 2^s
BShrParts(low, qr, w) ==
    [q |-> qr.q,
     r |-> BAdd(low, IF qr.r = 0 THEN <<>> ELSE Zeros(w) \o <<qr.r>>)]

BShr(a, s) ==
    BShrParts(BNorm(SubSeq(a, 1, IF s \div LimbBits < Len(a)
                                 THEN s \div LimbBits ELSE Len(a))),
              BDivSmall(IF s \div LimbBits < Len(a)
                        THEN SubSeq(a, s \div LimbBits + 1, Len(a)) ELSE <<>>,
                        2^(s % LimbBits)),
              s \div LimbBits)

BIsOdd(a) == a # <<>> /\ Head(a) % 2 = 1
BOne == <<1>>

(***************************************************************************)
(* JavaScript Numbers: sign * m * 2^e with m at most 2^53.  Every          *)
(* operation of the code is the exact result rounded to the nearest such   *)
(* number, ties to the even significand.  The amounts of the program are   *)
(* far from the subnormal and overflow ranges, which are left out.         *)
(***************************************************************************)
MantBits == 53

FZero == [sign |-> 1, m |-> <<>>, e |-> 0]

\* q, rounded up when the dropped part is above one half or at one half
\* with q odd (half is -1, 0, 1)
RoundUpIf(q, half, x) ==
    [m |-> IF half = 1 \/ (half = 0 /\ BIsOdd(q)) THEN BAdd(q, BOne) ELSE q,
     e |-> x]

\* the quotient qr.q of a division by 2^s, rounded by its remainder qr.r
RoundParts(qr, s, x) ==
    RoundUpIf(qr.q, BCmp(qr.r, BShl(BOne, s - 1)), x + s)

\* nearest double to the integer n * 2^x
RoundShift(n, x) ==
    IF BBitLen(n) <= MantBits THEN [m |-> n, e |-> x]
    ELSE RoundParts(BShr(n, BBitLen(n) - MantBits), BBitLen(n) - MantBits, x)

\* twice the quotient plus a sticky bit for a nonzero remainder
WithSticky(qr) ==
    BAdd(BShl(qr.q, 1), IF qr.r = 0 THEN <<>> ELSE BOne)

\* nearest double to (n / d) * 2^x, d a small positive integer, n > 0:
\* the quotient is taken to at least two bits beyond the significand
RoundDivBy(n, d, x, k) ==
    RoundShift(WithSticky(BDivSmall(BShl(n, k), d)), x - k - 1)

RoundDiv(n, d, x) ==
    RoundDivBy(n, d, x, MantBits + 2 + IntBitLen(d) - BBitLen(n))

Abs(n) == IF n < 0 THEN -n ELSE n
Sgn(n) == IF n < 0 THEN -1 ELSE 1

MkDouble(sign, me) ==
    IF me.m = <<>> THEN FZero ELSE [sign |-> sign, m |-> me.m, e |-> me.e]

\* the Number denoted by the decimal literal n / d (d a power of ten)
FromDecimal(n, d) ==
    IF n = 0 THEN FZero
    ELSE MkDouble(Sgn(n), RoundDiv(BFromInt(Abs(n)), d, 0))

\* x / d for a small positive integer d
FDivInt(x, d) ==
    IF x.m = <<>> THEN FZero ELSE MkDouble(x.sign, RoundDiv(x.m, d, x.e))

\* x * y
FMul(x, y) ==
    IF x.m = <<>> \/ y.m = <<>> THEN FZero
    ELSE MkDouble(x.sign * y.sign, RoundShift(BMul(x.m, y.m), x.e + y.e))

\* x * k for a small positive integer k
FMulInt(x, k) ==
    IF x.m = <<>> THEN FZero
    ELSE MkDouble(x.sign, RoundShift(BMulSmall(x.m, k), x.e))

\* the sum of sx * a * 2^e and sy * b * 2^e, a and b nonzero; c compares a
\* with b
FDiff(sx, a, b, c, e) ==
    IF c = 0 THEN FZero
    ELSE IF c > 0 THEN MkDouble(sx, RoundShift(BSub(a, b), e))
    ELSE MkDouble(-sx, RoundShift(BSub(b, a), e))

FSum(sx, a, sy, b, e) ==
    IF sx = sy THEN MkDouble(sx, RoundShift(BAdd(a, b), e))
    ELSE FDiff(sx, a, b, BCmp(a, b), e)

FAddAt(x, y, e) == FSum(x.sign, BShl(x.m, x.e - e), y.sign, BShl(y.m, y.e - e), e)

\* x + y
FAdd(x, y) ==
    IF x.m = <<>> THEN y
    ELSE IF y.m = <<>> THEN x
    ELSE FAddAt(x, y, IF x.e < y.e THEN x.e ELSE y.e)

\* x - y
FNeg(x) == IF x.m = <<>> THEN FZero ELSE [x EXCEPT !.sign = -x.sign]
FSub(x, y) == FAdd(x, FNeg(y))

\* -1, 0, 1 as x is below, at or above zero
FSign(x) == IF x.m = <<>> THEN 0 ELSE x.sign

\* integer part and fractional part (as r / 2^s) of the magnitude of x
FSplitParts(qr, s) == [int |-> qr.q, r |-> qr.r, s |-> s]

FSplit(x) ==
    IF x.e >= 0 THEN [int |-> BShl(x.m, x.e), r |-> <<>>, s |-> 0]
    ELSE FSplitParts(BShr(x.m, -x.e), -x.e)

\* -1, 0, 1 as the double m * 2^e is below, at or above one half
CmpHalf(me) ==
    IF me.m = <<>> THEN -1
    ELSE IF me.e >= -1 THEN (IF me.e = -1 /\ me.m = BOne THEN 0 ELSE 1)
    ELSE BCmp(me.m, BShl(BOne, -me.e - 1))

\* Math.floor(scaled), and the comparison of scaled - Math.floor(scaled)
\* with 0.5.  For scaled >= 0 the subtraction is exact; for scaled < 0 the
\* difference 1 - frac is rounded to a double before it is compared.
FloorRemOf(sign, p) ==
    IF sign = 1 \/ p.r = <<>>
    THEN [floor |-> sign * BToInt(p.int),
          cmp   |-> IF p.r = <<>> THEN -1 ELSE BCmp(p.r, BShl(BOne, p.s - 1))]
    ELSE [floor |-> -(BToInt(p.int) + 1),
          cmp   |-> CmpHalf(RoundShift(BSub(BShl(BOne, p.s), p.r), -p.s))]

FloorRem(x) == FloorRemOf(x.sign, FSplit(x))

(***************************************************************************)
(* bankersRound (routes.ts 26-39).  The result is given as its count of    *)
(* cents k: the code returns the double k / 100, whose toString is the     *)
(* two-decimal literal of k cents, which the decimal(10,2) column keeps.   *)
(***************************************************************************)
RoundOf(fr) ==
    IF fr.cmp < 0 THEN fr.floor
    ELSE IF fr.cmp > 0 THEN fr.floor + 1
    ELSE IF fr.floor % 2 = 0 THEN fr.floor ELSE fr.floor + 1

bankersRound(value) == RoundOf(FloorRem(FMulInt(value, 100)))

\* parseFloat of a decimal(10,2) or decimal(5,2) column holding n hundredths
parseFloat(n) == FromDecimal(n, 100)

(***************************************************************************)
(* Records of the schema.  A nullable column is None or Some(v); a string  *)
(* read from a decimal column is never empty, so its JavaScript truthiness *)
(* is "not null" ("0.00" is truthy).  Dates are day numbers.               *)
(***************************************************************************)
None == <<>>
Some(v) == <<v>>
Val(x) == x[1]

\* truthiness of a nullable column value (routes.ts 47, 63, 90, 97)
IsSet(x) == x # None

Persons == {"person1", "person2"}

\* the period covers the date, both bounds inclusive (routes.ts 49)
CoversExclusiveEnd(period, date) ==
    /\ date >= period.startDate
    /\ (~IsSet(period.endDate) \/ date < Val(period.endDate))
Covers(period, date) ==
    /\ date >= period.startDate
    /\ (~IsSet(period.endDate) \/ date <= Val(period.endDate))

\* findSplitPeriod (routes.ts 42-55): first covering period, or null
RECURSIVE findSplitPeriodLast(_, _)
findSplitPeriodLast(date, periods) ==
    IF periods = <<>> THEN None
    ELSE IF Covers(periods[Len(periods)], date) THEN Some(periods[Len(periods)])
    ELSE findSplitPeriodLast(date, SubSeq(periods, 1, Len(periods) - 1))
findSplitPeriodFirstOnly(date, periods) ==
    IF periods = <<>> THEN None
    ELSE IF Covers(Head(periods), date) THEN Some(Head(periods))
    ELSE None
RECURSIVE findSplitPeriod(_, _)
findSplitPeriod(date, periods) ==
    IF periods = <<>> THEN None
    ELSE IF Covers(Head(periods), date) THEN Some(Head(periods))
    ELSE findSplitPeriod(date, Tail(periods))

\* the 50 / 50 default of the calculators, in hundredths of a percent
DefaultPct == 5000

\* the percentages of the period found, or the default
PeriodPctNoDefault(period) ==
    IF IsSet(period)
    THEN [person1Pct |-> Val(period).person1SharePct,
          person2Pct |-> Val(period).person2SharePct]
    ELSE [person1Pct |-> 10000, person2Pct |-> 0]
PeriodPct(period) ==
    IF IsSet(period)
    THEN [person1Pct |-> Val(period).person1SharePct,
          person2Pct |-> Val(period).person2SharePct]
    ELSE [person1Pct |-> DefaultPct, person2Pct |-> DefaultPct]

\* the percentages a calculator applies (routes.ts 60-72, 94-106)
ResolvePctZeroFalsy(manual1, manual2, date, periods) ==
    IF IsSet(manual1) /\ IsSet(manual2) /\ Val(manual1) # 0 /\ Val(manual2) # 0
    THEN [person1Pct |-> Val(manual1), person2Pct |-> Val(manual2)]
    ELSE PeriodPct(findSplitPeriod(date, periods))
ResolvePct(manual1, manual2, date, periods) ==
    IF IsSet(manual1) /\ IsSet(manual2)
    THEN [person1Pct |-> Val(manual1), person2Pct |-> Val(manual2)]
    ELSE PeriodPct(findSplitPeriod(date, periods))

\* bankersRound(amount * (pct / 100)) on the parsed columns, in cents
ComputeShare(amount, pct) ==
    bankersRound(FMul(parseFloat(amount), FDivInt(parseFloat(pct), 100)))

\* the shares of the amounts and percentages that recur, computed once
KnownShares ==
    [k \in {0, 1, 109, 50000} \X {0, 4000, 5000, 6000, 10000, 15000} |->
        ComputeShare(k[1], k[2])]

ShareOf(amount, pct) ==
    IF <<amount, pct>> \in DOMAIN KnownShares
    THEN KnownShares[<<amount, pct>>]
    ELSE ComputeShare(amount, pct)

\* the owed amounts of an expense, given person1's share (routes.ts 76-85).
\* person2Share is the double total - person1Share; written with toString
\* into a decimal(10,2) column it is the exact difference in cents.
OwedBothRounded(expense, person1Share, person2Share) ==
    IF expense.paidBy = "person1"
    THEN [owedPerson1 |-> person2Share, owedPerson2 |-> 0]
    ELSE [owedPerson1 |-> 0, owedPerson2 |-> person1Share]
OwedBothSides(expense, person1Share) ==
    [owedPerson1 |-> expense.totalAmount - person1Share,
     owedPerson2 |-> person1Share]
OwedOf(expense, person1Share) ==
    IF expense.paidBy = "person1"
    THEN [owedPerson1 |-> expense.totalAmount - person1Share, owedPerson2 |-> 0]
    ELSE [owedPerson1 |-> 0, owedPerson2 |-> person1Share]

ExpensePct(expense, periods) ==
    ResolvePct(expense.manualPerson1SharePct, expense.manualPerson2SharePct,
               expense.date, periods)

\* calculateExpenseOwed (routes.ts 59-86)
calculateExpenseOwedBothRounded(expense, periods) ==
    OwedBothRounded(expense,
        ShareOf(expense.totalAmount, ExpensePct(expense, periods).person1Pct),
        ShareOf(expense.totalAmount, ExpensePct(expense, periods).person2Pct))
calculateExpenseOwedBothSides(expense, periods) ==
    OwedBothSides(expense,
        ShareOf(expense.totalAmount, ExpensePct(expense, periods).person1Pct))
calculateExpenseOwed(expense, periods) ==
    OwedOf(expense,
        ShareOf(expense.totalAmount, ExpensePct(expense, periods).person1Pct))

\* the result record of calculateAssetBuyback (routes.ts 112-116)
BuybackBothSides(keptBy, buyback) ==
    Some([buyback |-> buyback, owedPerson1 |-> buyback, owedPerson2 |-> buyback])
BuybackOf(keptBy, buyback) ==
    Some([buyback |-> buyback,
          owedPerson1 |-> IF keptBy = "person2" THEN buyback ELSE 0,
          owedPerson2 |-> IF keptBy = "person1" THEN buyback ELSE 0])

\* otherPartyPct (routes.ts 109)
OtherPartyPct(keptBy, pct) ==
    IF keptBy = "person1" THEN pct.person2Pct ELSE pct.person1Pct

\* calculateAssetBuyback (routes.ts 89-117): None for the null result
calculateAssetBuybackAtValuation(asset, periods) ==
    IF ~IsSet(asset.currentEstimatedValue) \/ ~IsSet(asset.keptBy) THEN None
    ELSE BuybackOf(Val(asset.keptBy),
            ShareOf(Val(asset.currentEstimatedValue),
                    OtherPartyPct(Val(asset.keptBy),
                        ResolvePct(asset.manualOriginalPerson1SharePct,
                                   asset.manualOriginalPerson2SharePct,
                                   IF IsSet(asset.valuationDate)
                                   THEN Val(asset.valuationDate)
                                   ELSE asset.purchaseDate, periods))))
calculateAssetBuyback(asset, periods) ==
    IF ~IsSet(asset.currentEstimatedValue) \/ ~IsSet(asset.keptBy) THEN None
    ELSE BuybackOf(Val(asset.keptBy),
            ShareOf(Val(asset.currentEstimatedValue),
                    OtherPartyPct(Val(asset.keptBy),
                        ResolvePct(asset.manualOriginalPerson1SharePct,
                                   asset.manualOriginalPerson2SharePct,
                                   asset.purchaseDate, periods))))

(***************************************************************************)
(* State.  The three source tables and the derived owed_lines table of one *)
(* settlement, the outcome of the last request that was answered, and      *)
(* `call`: a pending or completed call of a pure function of the engine,   *)
(* or the requests in flight, each with its position in its handler.       *)
(***************************************************************************)
VARIABLES splitPeriods, expenses, assets, owedLines, ledger, response, call

vars == <<splitPeriods, expenses, assets, owedLines, ledger, response, call>>
tables == <<splitPeriods, expenses, assets, owedLines, ledger, response>>

(***************************************************************************)
(* Bounds and input sets                                                   *)
(***************************************************************************)
MaxDate == 3
MaxMilli == 1300
MaxPeriods == 2
CalcDate == 2

Dates == 1..MaxDate
OptDates == {None} \cup {Some(d) : d \in Dates}

\* person1 / person2 percentages of a period, in hundredths of a percent
PctPairs == {<<6000, 4000>>, <<10000, 0>>}

SeqsUpTo(S, n) == UNION {[1..k -> S] : k \in 0..n}

PeriodRow(id, start, end, pp) ==
    [id |-> id, startDate |-> start, endDate |-> end,
     person1SharePct |-> pp[1], person2SharePct |-> pp[2]]

\* arguments of findSplitPeriod: any range, ordered or not
PeriodArgs ==
    {PeriodRow(0, st, en, pp) : st \in Dates, en \in OptDates, pp \in PctPairs}

\* periods given to the calculators: open-ended or ending on the record's date
CalcPeriodArgs ==
    {PeriodRow(0, st, en, pp) :
        st \in Dates, en \in {None} \cup {Some(d) : d \in {CalcDate}}, pp \in PctPairs}

\* amounts in cents: the smallest amount, odd-cent totals, a round value
Amounts == {1, 109, 50000}

\* manual override pairs: absent, complete (with a zero), incomplete
ManualPairs == {<<None, None>>, <<Some(0), Some(10000)>>, <<Some(7000), None>>}

ExpenseRow(id, date, total, paidBy, mp) ==
    [id |-> id, date |-> date, totalAmount |-> total, paidBy |-> paidBy,
     manualPerson1SharePct |-> mp[1], manualPerson2SharePct |-> mp[2]]

AssetRow(id, pdate, price, paidBy, mp, value, vdate, keptBy) ==
    [id |-> id, purchaseDate |-> pdate, purchasePrice |-> price, paidBy |-> paidBy,
     manualOriginalPerson1SharePct |-> mp[1],
     manualOriginalPerson2SharePct |-> mp[2],
     currentEstimatedValue |-> value, valuationDate |-> vdate, keptBy |-> keptBy]

\* a percentage between 0 and 100
InRange(pct) == 0 <= pct /\ pct <= 10000

OptPersons == {None} \cup {Some(p) : p \in Persons}

NoCall == [op |-> "none"]

RoundCalls ==
    {[op |-> "bankersRound", milli |-> t, done |-> FALSE, result |-> None] :
        t \in (0..MaxMilli) \cup {60255}}

PeriodCalls ==
    {[op |-> "findSplitPeriod", date |-> d, periods |-> ps,
      done |-> FALSE, result |-> None] :
        d \in Dates, ps \in SeqsUpTo(PeriodArgs, MaxPeriods)}

ExpenseCalls ==
    {[op |-> "calculateExpenseOwed",
      expense |-> ExpenseRow(0, CalcDate, a, pb, mp), periods |-> ps,
      done |-> FALSE, result |-> None] :
        a \in Amounts, pb \in Persons, mp \in ManualPairs,
        ps \in SeqsUpTo(CalcPeriodArgs, MaxPeriods)}

AssetCalls ==
    {[op |-> "calculateAssetBuyback",
      asset |-> AssetRow(0, CalcDate, 50000, "person1", mp, v, Some(MaxDate), kb),
      periods |-> ps, done |-> FALSE, result |-> None] :
        mp \in ManualPairs, v \in {None, Some(109), Some(50000)}, kb \in OptPersons,
        ps \in SeqsUpTo(CalcPeriodArgs, MaxPeriods)}

(***************************************************************************)
(* Calls of the pure functions                                             *)
(***************************************************************************)
\* bankersRound applied to the Number of a three-decimal literal
DoBankersRound ==
    /\ call.op = "bankersRound" /\ ~call.done
    /\ call' = [call EXCEPT !.done = TRUE,
                  !.result = Some(bankersRound(FromDecimal(call.milli, 1000)))]
    /\ UNCHANGED tables

DoFindSplitPeriod ==
    /\ call.op = "findSplitPeriod" /\ ~call.done
    /\ call' = [call EXCEPT !.done = TRUE,
                  !.result = Some(findSplitPeriod(call.date, call.periods))]
    /\ UNCHANGED tables

DoCalculateExpenseOwed ==
    /\ call.op = "calculateExpenseOwed" /\ ~call.done
    /\ call' = [call EXCEPT !.done = TRUE,
                  !.result = Some(calculateExpenseOwed(call.expense, call.periods))]
    /\ UNCHANGED tables

DoCalculateAssetBuyback ==
    /\ call.op = "calculateAssetBuyback" /\ ~call.done
    /\ call' = [call EXCEPT !.done = TRUE,
                  !.result = Some(calculateAssetBuyback(call.asset, call.periods))]
    /\ UNCHANGED tables

EmptyTables ==
    /\ splitPeriods = <<>>
    /\ expenses = <<>>
    /\ assets = <<>>
    /\ owedLines = {}
    /\ ledger = "ok"
    /\ response = 0

InitRound == EmptyTables /\ call \in RoundCalls
SpecRound == InitRound /\ [][DoBankersRound]_vars

InitPeriod == EmptyTables /\ call \in PeriodCalls
SpecPeriod == InitPeriod /\ [][DoFindSplitPeriod]_vars

InitCalc == EmptyTables /\ call \in ExpenseCalls \cup AssetCalls
NextCalc == DoCalculateExpenseOwed \/ DoCalculateAssetBuyback
SpecCalc == InitCalc /\ [][NextCalc]_vars

(***************************************************************************)
(* Storage.  A table is the sequence of its rows in the order a SELECT     *)
(* without ORDER BY returns them; a written row lands at any position and  *)
(* the rows a request does not write keep their relative order.            *)
(***************************************************************************)
\* rows of the three source tables together
MaxRows == 2
\* rows of one uploaded CSV file
MaxImportRows == 2

StoredRows == Len(splitPeriods) + Len(expenses) + Len(assets)

HasRow(table, id) == \E i \in 1..Len(table) : table[i].id = id
IndexOf(table, id) == CHOOSE i \in 1..Len(table) : table[i].id = id
InsertAt(table, pos, row) ==
    SubSeq(table, 1, pos - 1) \o <<row>> \o SubSeq(table, pos, Len(table))
RemoveAt(table, i) == SubSeq(table, 1, i - 1) \o SubSeq(table, i + 1, Len(table))

\* db.insert(...).values(...): the row gets a fresh id
InsertRow(table, row) ==
    {InsertAt(table, pos, [row EXCEPT !.id = Len(table) + 1]) :
        pos \in 1..(Len(table) + 1)}

\* the tables that inserting the rows one after the other can leave
RECURSIVE InsertRows(_, _)
InsertRows(table, rows) ==
    IF rows = <<>> THEN {table}
    ELSE UNION {InsertRows(t, Tail(rows)) : t \in InsertRow(table, Head(rows))}

\* db.update(...).set(updates): the fields the body names are overwritten
SetFields(row, updates) ==
    [f \in DOMAIN row |-> IF f \in DOMAIN updates THEN updates[f] ELSE row[f]]

MovedRow(rest, row) == {InsertAt(rest, pos, row) : pos \in 1..(Len(rest) + 1)}
UpdateRowAt(table, i, updates) ==
    MovedRow(RemoveAt(table, i), SetFields(table[i], updates))
UpdateRow(table, id, updates) == UpdateRowAt(table, IndexOf(table, id), updates)

\* the rows of a CSV file up to the first one its schema rejects
RECURSIVE ParsedRows(_, _)
ParsedRows(rows, schema) ==
    IF rows = <<>> \/ Head(rows) \notin schema THEN <<>>
    ELSE <<Head(rows)>> \o ParsedRows(Tail(rows), schema)

LineIds == 1..(MaxRows + 1)
NewLineId(lines) == CHOOSE i \in 1..(Cardinality(lines) + 1) : \A l \in lines : l.id # i

deleteOwedLinesBySource(lines, sourceType, sourceId) ==
    {l \in lines : ~(l.sourceType = sourceType /\ l.sourceId = sourceId)}

createOwedLine(lines, line) == lines \cup {[line EXCEPT !.id = NewLineId(lines)]}

UpdateEveryOwedLine(lines, id, paid) ==
    {[l EXCEPT !.paidStatus = paid] : l \in lines}
updateOwedLine(lines, id, paid) ==
    {IF l.id = id THEN [l EXCEPT !.paidStatus = paid] ELSE l : l \in lines}

(***************************************************************************)
(* recalculateLedger                                                       *)
(***************************************************************************)
ExpenseLine(expense, owed) ==
    [id |-> 0, sourceType |-> "expense", sourceId |-> expense.id,
     date |-> expense.date, totalAmount |-> expense.totalAmount,
     owedPerson1 |-> owed.owedPerson1, owedPerson2 |-> owed.owedPerson2,
     paidStatus |-> FALSE]

AssetLineAtPurchase(asset, info) ==
    [id |-> 0, sourceType |-> "asset", sourceId |-> asset.id,
     date |-> asset.purchaseDate, totalAmount |-> Val(asset.currentEstimatedValue),
     owedPerson1 |-> info.owedPerson1, owedPerson2 |-> info.owedPerson2,
     paidStatus |-> FALSE]
AssetLine(asset, info) ==
    [id |-> 0, sourceType |-> "asset", sourceId |-> asset.id,
     date |-> Val(asset.valuationDate), totalAmount |-> Val(asset.currentEstimatedValue),
     owedPerson1 |-> info.owedPerson1, owedPerson2 |-> info.owedPerson2,
     paidStatus |-> FALSE]

\* the loop over the expenses: delete the lines of the expense, insert one
RECURSIVE ProcessExpenses(_, _, _)
ProcessExpenses(rows, periods, lines) ==
    IF rows = <<>> THEN lines
    ELSE ProcessExpenses(Tail(rows), periods,
            createOwedLine(
                deleteOwedLinesBySource(lines, "expense", Head(rows).id),
                ExpenseLine(Head(rows), calculateExpenseOwed(Head(rows), periods))))

\* the loop over the assets.  The insert of a line whose date is null
\* violates the NOT NULL constraint of owed_lines.date: the statement throws
\* and the function ends there, with the work done so far in place.
RECURSIVE ProcessAssets(_, _, _)
AssetStep(asset, rest, periods, lines, buybackInfo) ==
    IF buybackInfo = None THEN ProcessAssets(rest, periods, lines)
    ELSE IF ~IsSet(asset.valuationDate) THEN [lines |-> lines, ledger |-> "threw"]
    ELSE ProcessAssets(rest, periods,
            createOwedLine(lines, AssetLine(asset, Val(buybackInfo))))
ProcessAssetsNoDelete(rows, periods, lines) ==
    IF rows = <<>> THEN [lines |-> lines, ledger |-> "ok"]
    ELSE AssetStep(Head(rows), Tail(rows), periods, lines,
            calculateAssetBuyback(Head(rows), periods))
ProcessAssets(rows, periods, lines) ==
    IF rows = <<>> THEN [lines |-> lines, ledger |-> "ok"]
    ELSE AssetStep(Head(rows), Tail(rows), periods,
            deleteOwedLinesBySource(lines, "asset", Head(rows).id),
            calculateAssetBuyback(Head(rows), periods))

recalculateLedger(expenseRows, assetRows, periods, lines) ==
    ProcessAssets(assetRows, periods, ProcessExpenses(expenseRows, periods, lines))

(***************************************************************************)
(* Request bodies                                                          *)
(***************************************************************************)
\* POST /api/split-periods: a period from day 2 on, and a percentage above 100
PeriodInputs ==
    {PeriodRow(0, 2, None, <<6000, 4000>>), PeriodRow(0, 1, None, <<15000, 0>>)}
\* PATCH /api/split-periods/:id
PeriodUpdates ==
    {[person1SharePct |-> 15000, person2SharePct |-> 0],
     [startDate |-> 1, person1SharePct |-> 15000, person2SharePct |-> 0]}

\* POST /api/expenses: 1.09 on day 1 with half a manual override, one cent on
\* day 2, and a zero amount
ExpenseInputs ==
    {ExpenseRow(0, 1, 109, "person1", <<Some(7000), None>>),
     ExpenseRow(0, 2, 1, "person2", <<None, None>>),
     ExpenseRow(0, 1, 0, "person1", <<None, None>>)}
\* PATCH /api/expenses/:id: the body goes to storage as it is; a manual
\* override, and another payer
ExpenseUpdates ==
    {[manualPerson1SharePct |-> Some(0), manualPerson2SharePct |-> Some(10000)],
     [paidBy |-> "person2"]}

\* POST /api/assets: bought on day 1; not valued, valued on day 2, no price
AssetInputs ==
    {AssetRow(0, 1, 50000, "person1", <<None, None>>, None, None, None),
     AssetRow(0, 1, 50000, "person1", <<None, None>>,
              Some(109), Some(2), Some("person1")),
     AssetRow(0, 1, 0, "person1", <<None, None>>, None, None, None)}
\* PATCH /api/assets/:id
AssetUpdates == {[keptBy |-> None]}
\* PATCH /api/assets/:id/valuation: the fields the body leaves out are
\* undefined and stay as they are
ValuationUpdates ==
    {[currentEstimatedValue |-> Some(50000), valuationDate |-> Some(2),
      keptBy |-> Some("person2")],
     [currentEstimatedValue |-> Some(109), keptBy |-> Some("person1")]}

\* POST /api/import/:type: the rows of an uploaded file, each a row its
\* schema accepts or one it rejects
CsvPeriods == PeriodInputs
CsvExpenses ==
    {ExpenseRow(0, 2, 1, "person2", <<None, None>>),
     ExpenseRow(0, 1, 0, "person1", <<None, None>>)}
CsvAssets ==
    {AssetRow(0, 1, 50000, "person1", <<None, None>>, None, None, None),
     AssetRow(0, 1, 0, "person1", <<None, None>>, None, None, None)}
CsvFiles(inputs) == {<<>>} \cup UNION {[1..k -> inputs] : k \in 1..MaxImportRows}

\* the bodies the insert schemas accept
insertSplitPeriodSchema ==
    {p \in PeriodInputs : InRange(p.person1SharePct) /\ InRange(p.person2SharePct)}
insertExpenseSchema ==
    {e \in ExpenseInputs : e.totalAmount > 0 /\ e.paidBy \in Persons}
insertAssetSchema ==
    {a \in AssetInputs :
        /\ a.purchasePrice > 0
        /\ a.paidBy \in Persons
        /\ a.keptBy \in OptPersons}

(***************************************************************************)
(* The steps of recalculateLedger.  Every await is a point where the event *)
(* loop runs another request: a run reads the three tables, each with a    *)
(* query of its own, then for each record deletes its lines and inserts    *)
(* the fresh one, each a storage call of its own and none inside a         *)
(* transaction.                                                            *)
(***************************************************************************)
\* recalculations in flight at the same time
MaxRuns == 2
Runs == 1..MaxRuns

NotLoaded == [expenses |-> <<>>, assets |-> <<>>, periods |-> <<>>]
NewRun ==
    [pc |-> "load", kind |-> "expense", i |-> 1, snap |-> NotLoaded, got |-> {}]

\* the three queries of Promise.all, by the table each reads
Queries == {"expenses", "assets", "periods"}

\* the run at the delete of record i of the loop over kind, at the loop
\* over the assets when the expenses are through, or at its end
Ahead(run, kind, i) ==
    IF kind = "expense" /\ i <= Len(run.snap.expenses)
    THEN [run EXCEPT !.pc = "delete", !.kind = "expense", !.i = i]
    ELSE IF kind = "expense" /\ Len(run.snap.assets) >= 1
    THEN [run EXCEPT !.pc = "delete", !.kind = "asset", !.i = 1]
    ELSE IF kind = "asset" /\ i <= Len(run.snap.assets)
    THEN [run EXCEPT !.pc = "delete", !.kind = "asset", !.i = i]
    ELSE [run EXCEPT !.pc = "done", !.kind = "asset", !.i = 0]

\* the record the run is at
Current(run) ==
    IF run.kind = "expense" THEN run.snap.expenses[run.i] ELSE run.snap.assets[run.i]

\* the line the run inserts for its record
FreshLine(run, record) ==
    IF run.kind = "expense"
    THEN ExpenseLine(record, calculateExpenseOwed(record, run.snap.periods))
    ELSE AssetLine(record, Val(calculateAssetBuyback(record, run.snap.periods)))

\* the run with the rows of one more query; Promise.all resolves with the
\* last of the three, and the run goes on to its loops
Loaded(run, query, rows) ==
    IF run.got \cup {query} = Queries
    THEN Ahead([run EXCEPT !.snap[query] = rows, !.got = {}], "expense", 1)
    ELSE [run EXCEPT !.snap[query] = rows, !.got = @ \cup {query}]

\* Promise.all of getAllExpenses, getAllAssets, getAllSplitPeriods: three
\* queries sent together, each a storage call of its own that reads its
\* table when it executes, in any order
LoadTables(r) ==
    /\ call.op \in {"requests", "recalculateLedger"} /\ call.runs[r].pc = "load"
    /\ \E query \in Queries \ call.runs[r].got :
          call' = [call EXCEPT !.runs[r] =
                     Loaded(@, query,
                            CASE query = "expenses" -> expenses
                              [] query = "assets" -> assets
                              [] OTHER -> splitPeriods)]
    /\ UNCHANGED tables

\* await storage.deleteOwedLinesBySource; an asset without a buyback is
\* done with that
DeletedLines(r, run, record) ==
    /\ owedLines' = deleteOwedLinesBySource(owedLines, run.kind, record.id)
    /\ call' = [call EXCEPT !.runs[r] =
                  IF run.kind = "asset"
                     /\ calculateAssetBuyback(record, run.snap.periods) = None
                  THEN Ahead(run, "asset", run.i + 1)
                  ELSE [run EXCEPT !.pc = "insert"]]
    /\ UNCHANGED <<splitPeriods, expenses, assets, ledger, response>>

DeleteLines(r) ==
    /\ call.op \in {"requests", "recalculateLedger"} /\ call.runs[r].pc = "delete"
    /\ DeletedLines(r, call.runs[r], Current(call.runs[r]))

\* await storage.createOwedLine; the insert of an asset line with a null
\* date throws and ends the run
InsertedLine(r, run, record) ==
    /\ IF run.kind = "asset" /\ ~IsSet(record.valuationDate)
       THEN /\ owedLines' = owedLines
            /\ call' = [call EXCEPT !.runs[r] = [run EXCEPT !.pc = "threw"]]
       ELSE /\ owedLines' = createOwedLine(owedLines, FreshLine(run, record))
            /\ call' = [call EXCEPT !.runs[r] = Ahead(run, run.kind, run.i + 1)]
    /\ UNCHANGED <<splitPeriods, expenses, assets, ledger, response>>

InsertLine(r) ==
    /\ call.op \in {"requests", "recalculateLedger"} /\ call.runs[r].pc = "insert"
    /\ InsertedLine(r, call.runs[r], Current(call.runs[r]))

(***************************************************************************)
(* Requests of a participant who owns the records.  A handler checks its   *)
(* body, writes its row and awaits recalculateLedger; it returns to the    *)
(* event loop at every await, so the storage calls of the requests in      *)
(* flight interleave.  A step is one storage call that writes or that      *)
(* reads a table of the records, with the code that runs up to it, or the  *)
(* answer of a request that wrote.  The lookups before the write           *)
(* (getExpense, getParticipantByUserAndSettlement) and                     *)
(* getSettlementParticipants after the load read what no request here      *)
(* changes or deletes, and belong to the step of the call after them; a    *)
(* request that is refused before it writes answers in that step.          *)
(***************************************************************************)
\* requests in one behaviour
MaxRequests == 3

\* requests in one behaviour up to the one that begins while another is in
\* flight, which is its last
MaxOverlapping == 2

\* the position of a request: a slot with no request, and in a request
\* the queries of its load that have executed, its answer on success,
\* whether no other request came between its storage calls, and of an
\* import the type and the rows still to read
Idle ==
    [pc |-> "idle", kind |-> "expense", i |-> 1, snap |-> NotLoaded, got |-> {},
     status |-> 0, alone |-> TRUE, type |-> "none",
     todo |-> <<>>]

\* the requests between two of their storage calls, and the slot of the
\* next one
InFlight == {r \in Runs : call.runs[r].pc # "idle"}
FreeRun == CHOOSE r \in Runs \ InFlight : \A q \in Runs \ InFlight : r <= q

\* the requests in flight, each with a storage call of another request
\* between its own
Overlapped ==
    [r \in Runs |->
        IF r \in InFlight THEN [call.runs[r] EXCEPT !.alone = FALSE] ELSE call.runs[r]]

\* the handler has written its row and goes on to its next storage call,
\* within the bounds on the requests of a behaviour
Begun(pc, status, type, todo) ==
    /\ InFlight # Runs
    /\ call.begun < (IF InFlight = {} THEN MaxRequests ELSE MaxOverlapping)
    /\ call' = [call EXCEPT !.begun = IF InFlight = {} THEN @ + 1 ELSE MaxRequests,
                            !.runs =
                  [Overlapped EXCEPT ![FreeRun] =
                      [Idle EXCEPT !.pc = pc, !.status = status,
                                   !.alone = (InFlight = {}),
                                   !.type = type, !.todo = todo]]]
    /\ UNCHANGED <<owedLines, ledger, response>>

\* await recalculateLedger(settlementId), after the write of the handler
Recalculate(status) == Begun("load", status, "none", <<>>)

\* the rows that the imports in flight have still to store
RECURSIVE PendingRows(_)
PendingRows(runs) ==
    IF runs = {} THEN 0
    ELSE LET r == CHOOSE x \in runs : TRUE
         IN  Len(call.runs[r].todo) + PendingRows(runs \ {r})

\* room for so many more rows within the bound
RoomFor(rows) == StoredRows + PendingRows(InFlight) + rows <= MaxRows

\* a response that leaves every table as it is
Refuse(status) ==
    /\ call.begun < MaxRequests
    /\ response' = status
    /\ call' = [call EXCEPT !.begun = @ + 1]
    /\ UNCHANGED <<splitPeriods, expenses, assets, owedLines, ledger>>

\* res.json(...) after recalculateLedger returned, or the catch block:
\* 400 when it threw, and when the schema of a CSV row threw, in which
\* case the rows before it stay and nothing is rebuilt; and the answer of
\* PATCH /api/ledger/:id/paid after its updateOwedLine
Respond(r) ==
    /\ call.op = "requests"
    /\ call.runs[r].pc \in {"done", "threw", "aborted", "answer"}
    /\ ledger' = CASE call.runs[r].pc = "done" -> "ok"
                   [] call.runs[r].pc = "threw" -> "threw"
                   [] call.runs[r].pc = "aborted" -> "skipped"
                   [] OTHER -> ledger
    /\ response' = IF call.runs[r].pc \in {"done", "answer"}
                   THEN call.runs[r].status ELSE 400
    /\ call' = [call EXCEPT !.runs[r] = Idle,
                            !.alone = IF call.runs[r].pc = "answer" THEN @
                                      ELSE call.runs[r].alone]
    /\ UNCHANGED <<splitPeriods, expenses, assets, owedLines>>

CreateSplitPeriod(body) ==
    /\ call.op = "requests"
    /\ IF body \notin insertSplitPeriodSchema THEN Refuse(400)
       ELSE /\ RoomFor(1)
            /\ splitPeriods' \in InsertRow(splitPeriods, body)
            /\ UNCHANGED <<expenses, assets>>
            /\ Recalculate(201)

UpdateSplitPeriod(id, body) ==
    /\ call.op = "requests"
    /\ IF ~HasRow(splitPeriods, id) THEN Refuse(404)
       ELSE /\ splitPeriods' \in UpdateRow(splitPeriods, id, body)
            /\ UNCHANGED <<expenses, assets>>
            /\ Recalculate(200)

CreateExpense(body) ==
    /\ call.op = "requests"
    /\ IF body \notin insertExpenseSchema THEN Refuse(400)
       ELSE /\ RoomFor(1)
            /\ expenses' \in InsertRow(expenses, body)
            /\ UNCHANGED <<splitPeriods, assets>>
            /\ Recalculate(201)

UpdateExpenseRecalculates(id, body) ==
    /\ call.op = "requests"
    /\ IF ~HasRow(expenses, id)
       THEN UNCHANGED <<splitPeriods, expenses, assets>> /\ Recalculate(404)
       ELSE /\ expenses' \in UpdateRow(expenses, id, body)
            /\ UNCHANGED <<splitPeriods, assets>>
            /\ Recalculate(200)

UpdateExpense(id, body) ==
    /\ call.op = "requests"
    /\ IF ~HasRow(expenses, id) THEN Refuse(404)
       ELSE /\ expenses' \in UpdateRow(expenses, id, body)
            /\ UNCHANGED <<splitPeriods, assets>>
            /\ Recalculate(200)

CreateAsset(body) ==
    /\ call.op = "requests"
    /\ IF body \notin insertAssetSchema THEN Refuse(400)
       ELSE /\ RoomFor(1)
            /\ assets' \in InsertRow(assets, body)
            /\ UNCHANGED <<splitPeriods, expenses>>
            /\ Recalculate(201)

UpdateAsset(id, body) ==
    /\ call.op = "requests"
    /\ IF ~HasRow(assets, id) THEN Refuse(404)
       ELSE /\ assets' \in UpdateRow(assets, id, body)
            /\ UNCHANGED <<splitPeriods, expenses>>
            /\ Recalculate(200)

UpdateValuation(id, body) ==
    /\ call.op = "requests"
    /\ IF ~HasRow(assets, id) THEN Refuse(404)
       ELSE /\ assets' \in UpdateRow(assets, id, body)
            /\ UNCHANGED <<splitPeriods, expenses>>
            /\ Recalculate(200)

\* the source records whose line a user marked paid and did not set back
MarkedPaid(line, paid) ==
    IF paid THEN call.paid \cup {<<line.sourceType, line.sourceId>>}
    ELSE call.paid \ {<<line.sourceType, line.sourceId>>}

\* the request that has made its one storage call and has still to answer
Answering(status) == [Idle EXCEPT !.pc = "answer", !.status = status]

\* PATCH /api/ledger/:id/paid: await storage.updateOwedLine, which throws
\* when no line has the id; the handler answers in the continuation, 200
\* with the line or 400 from the catch block
SetPaidStatus(id, paid) ==
    /\ call.op = "requests"
    /\ InFlight # Runs
    /\ call.begun < MaxRequests
    /\ IF \A l \in owedLines : l.id # id
       THEN /\ owedLines' = owedLines
            /\ call' = [call EXCEPT !.begun = @ + 1,
                                    !.runs[FreeRun] = Answering(400)]
       ELSE /\ owedLines' = updateOwedLine(owedLines, id, paid)
            /\ call' = [call EXCEPT
                          !.begun = @ + 1,
                          !.runs = [Overlapped EXCEPT ![FreeRun] = Answering(200)],
                          !.paid = MarkedPaid(CHOOSE l \in owedLines : l.id = id,
                                              paid)]
    /\ UNCHANGED <<splitPeriods, expenses, assets, ledger, response>>

\* POST /api/import/:type: the first row is parsed and stored; a first row
\* that its schema rejects ends the request with nothing written, and a
\* file without rows goes on to recalculateLedger
ImportFirst(type, rows, parsed) ==
    IF rows = <<>>
    THEN UNCHANGED <<splitPeriods, expenses, assets>> /\ Begun("load", 200, type, <<>>)
    ELSE IF parsed = <<>> THEN Refuse(400)
    ELSE /\ RoomFor(Len(parsed))
         /\ splitPeriods' \in IF type = "split-periods"
                              THEN InsertRow(splitPeriods, Head(parsed))
                              ELSE {splitPeriods}
         /\ expenses' \in IF type = "expenses"
                          THEN InsertRow(expenses, Head(parsed)) ELSE {expenses}
         /\ assets' \in IF type = "assets"
                        THEN InsertRow(assets, Head(parsed)) ELSE {assets}
         /\ Begun(IF Len(parsed) > 1 THEN "import"
                  ELSE IF parsed = rows THEN "load" ELSE "aborted",
                  200, type, IF Len(parsed) > 1 THEN Tail(rows) ELSE <<>>)

ImportCsv ==
    /\ call.op = "requests"
    /\ \/ \E rows \in CsvFiles(CsvPeriods) :
             ImportFirst("split-periods", rows, ParsedRows(rows, insertSplitPeriodSchema))
       \/ \E rows \in CsvFiles(CsvExpenses) :
             ImportFirst("expenses", rows, ParsedRows(rows, insertExpenseSchema))
       \/ \E rows \in CsvFiles(CsvAssets) :
             ImportFirst("assets", rows, ParsedRows(rows, insertAssetSchema))

\* the rows that are left of the file, up to the first one its schema rejects
ParsedOf(run) ==
    ParsedRows(run.todo,
               CASE run.type = "split-periods" -> insertSplitPeriodSchema
                 [] run.type = "expenses" -> insertExpenseSchema
                 [] OTHER -> insertAssetSchema)

\* the next row of the file is parsed and stored
ImportedRow(r, run, parsed) ==
    /\ splitPeriods' \in IF run.type = "split-periods"
                         THEN InsertRow(splitPeriods, Head(parsed))
                         ELSE {splitPeriods}
    /\ expenses' \in IF run.type = "expenses"
                     THEN InsertRow(expenses, Head(parsed)) ELSE {expenses}
    /\ assets' \in IF run.type = "assets"
                   THEN InsertRow(assets, Head(parsed)) ELSE {assets}
    /\ call' = [call EXCEPT !.runs[r] =
                  [run EXCEPT !.pc = IF Len(parsed) > 1 THEN "import"
                                     ELSE IF parsed = run.todo THEN "load"
                                     ELSE "aborted",
                              !.todo = IF Len(parsed) > 1 THEN Tail(run.todo)
                                       ELSE <<>>]]
    /\ UNCHANGED <<owedLines, ledger, response>>

ImportRow(r) ==
    /\ call.op = "requests" /\ call.runs[r].pc = "import"
    /\ ImportedRow(r, call.runs[r], ParsedOf(call.runs[r]))

RowIds == 1..MaxRows

NoRequests ==
    [op |-> "requests", runs |-> [r \in Runs |-> Idle], alone |-> TRUE,
     begun |-> 0, paid |-> {}]

Init == EmptyTables /\ call = NoRequests

Next ==
    \/ \E body \in PeriodInputs : CreateSplitPeriod(body)
    \/ \E id \in RowIds, body \in PeriodUpdates : UpdateSplitPeriod(id, body)
    \/ \E body \in ExpenseInputs : CreateExpense(body)
    \/ \E id \in RowIds, body \in ExpenseUpdates : UpdateExpense(id, body)
    \/ \E body \in AssetInputs : CreateAsset(body)
    \/ \E id \in RowIds, body \in AssetUpdates : UpdateAsset(id, body)
    \/ \E id \in RowIds, body \in ValuationUpdates : UpdateValuation(id, body)
    \/ \E id \in LineIds, paid \in BOOLEAN : SetPaidStatus(id, paid)
    \/ ImportCsv
    \/ \E r \in Runs : ImportRow(r)
    \/ \E r \in Runs : LoadTables(r)
    \/ \E r \in Runs : DeleteLines(r)
    \/ \E r \in Runs : InsertLine(r)
    \/ \E r \in Runs : Respond(r)

Spec == Init /\ [][Next]_vars


(***************************************************************************)
(* Overlapping recalculations.  Every await of recalculateLedger is a      *)
(* point where another request runs: a run loads the three tables, then    *)
(* for each record deletes its lines and inserts the fresh one, each a     *)
(* storage call of its own and none inside a transaction.  GET /api/ledger *)
(* reads owed_lines with one query at any such point.                      *)
(***************************************************************************)
\* GET /api/ledger: storage.getAllOwedLines
ReadLedger ==
    /\ call.op = "recalculateLedger"
    /\ call' = [call EXCEPT !.seen = owedLines]
    /\ UNCHANGED tables

\* the settlements the runs start from: an expense, alone or with an asset
\* that has a buyback, none, or one without a valuation date
RunExpenses == <<ExpenseRow(1, 1, 109, "person1", <<None, None>>)>>
RunAssets ==
    {<<>>,
     <<AssetRow(1, 1, 50000, "person1", <<None, None>>,
                Some(109), Some(2), Some("person1"))>>,
     <<AssetRow(1, 1, 50000, "person1", <<None, None>>, None, None, None)>>,
     <<AssetRow(1, 1, 50000, "person1", <<None, None>>,
                Some(109), None, Some("person1"))>>}

LedgerOf(result) ==
    /\ owedLines = result.lines
    /\ ledger = result.ledger
    /\ call = [op |-> "recalculateLedger", runs |-> [r \in Runs |-> NewRun],
               seen |-> result.lines]

InitConcurrent ==
    /\ splitPeriods = <<>>
    /\ expenses = RunExpenses
    /\ assets \in RunAssets
    /\ response = 0
    /\ LedgerOf(recalculateLedger(expenses, assets, splitPeriods, {}))

NextConcurrent ==
    \/ \E r \in Runs : LoadTables(r)
    \/ \E r \in Runs : DeleteLines(r)
    \/ \E r \in Runs : InsertLine(r)
    \/ ReadLedger

SpecConcurrent == InitConcurrent /\ [][NextConcurrent]_vars

(***************************************************************************)
(* Overlapping update requests.  PATCH /api/expenses/:id writes the        *)
(* expense and then awaits recalculateLedger; a second request on the same *)
(* settlement runs between any two of its storage calls.                   *)
(***************************************************************************)
\* a request that has found its expense and not yet written it
NewRequest == [NewRun EXCEPT !.pc = "write"]

\* the bodies of the overlapping requests: a manual override, a new amount
OverlapUpdates == ExpenseUpdates \cup {[totalAmount |-> 50000]}

\* await storage.updateExpense(req.params.id, req.body)
WriteExpense(r, id, body) ==
    /\ call.op = "recalculateLedger" /\ call.runs[r].pc = "write"
    /\ HasRow(expenses, id)
    /\ expenses' \in UpdateRow(expenses, id, body)
    /\ call' = [call EXCEPT !.runs[r].pc = "load"]
    /\ UNCHANGED <<splitPeriods, assets, owedLines, ledger, response>>

RequestsOf(result) ==
    /\ owedLines = result.lines
    /\ ledger = result.ledger
    /\ call = [op |-> "recalculateLedger", runs |-> [r \in Runs |-> NewRequest],
               seen |-> result.lines]

InitOverlap ==
    /\ splitPeriods = <<>>
    /\ expenses = RunExpenses
    /\ assets \in RunAssets
    /\ response = 0
    /\ RequestsOf(recalculateLedger(expenses, assets, splitPeriods, {}))

NextOverlap ==
    \/ \E r \in Runs, body \in OverlapUpdates : WriteExpense(r, 1, body)
    \/ \E r \in Runs : LoadTables(r)
    \/ \E r \in Runs : DeleteLines(r)
    \/ \E r \in Runs : InsertLine(r)

SpecOverlap == InitOverlap /\ [][NextOverlap]_vars

(***************************************************************************)
(* POST /api/settlements/:id/join (routes.ts 266-298).  The handler looks  *)
(* the user up among the participants, counts the participants and inserts *)
(* the new one: three storage calls with an await before each, between     *)
(* which the other join requests run.  POST /api/settlements (routes.ts    *)
(* 210-231) inserts the settlement and then the row of its creator, two    *)
(* storage calls outside a transaction; the settlement can be joined from  *)
(* the first one on.                                                       *)
(***************************************************************************)
\* join requests in flight at the same time
MaxJoins == 3
Joins == 1..MaxJoins

\* the creator of the settlement and two invited users
Creator == "user1"
Users == {Creator, "user2", "user3"}

\* storage.createSettlement: the creator is a participant
CreatedParticipants == {[userId |-> Creator, role |-> "creator"]}

getParticipantByUserAndSettlement(participants, userId) ==
    {p \in participants : p.userId = userId}

getSettlementParticipants(participants) == participants

\* unique(settlementId, userId): the insert of a second row of a user throws
addParticipant(participants, userId) ==
    IF \E p \in participants : p.userId = userId THEN participants
    ELSE participants \cup {[userId |-> userId, role |-> "participant"]}

\* storage.createSettlement, db.insert(settlements): the settlement exists,
\* with no participant yet
InsertSettlement ==
    /\ call.op = "join" /\ call.create = "settlement"
    /\ call' = [call EXCEPT !.create = "creator"]
    /\ UNCHANGED tables

\* storage.createSettlement, db.insert(settlementParticipants): the row of
\* the creator; unique(settlementId, userId) makes the insert throw when the
\* creator has joined before it, and the request answers 400
InsertCreator ==
    /\ call.op = "join" /\ call.create = "creator"
    /\ IF getParticipantByUserAndSettlement(call.participants, Creator) # {}
       THEN call' = [call EXCEPT !.create = "threw"]
       ELSE call' = [call EXCEPT !.create = "done",
                                 !.participants = @ \cup CreatedParticipants]
    /\ UNCHANGED tables

JoinEnds(j, status) ==
    call' = [call EXCEPT !.joins[j].pc = "done", !.joins[j].status = status]
JoinGoes(j, pc) == call' = [call EXCEPT !.joins[j].pc = pc]

\* const existing = await storage.getParticipantByUserAndSettlement(...)
CheckExisting(j) ==
    /\ call.op = "join" /\ call.joins[j].pc = "existing"
    /\ call.create # "settlement"
    /\ IF getParticipantByUserAndSettlement(call.participants, call.joins[j].userId) # {}
       THEN JoinEnds(j, 400)
       ELSE JoinGoes(j, "count")
    /\ UNCHANGED tables

\* const participants = await storage.getSettlementParticipants(settlementId)
CountParticipants(j) ==
    /\ call.op = "join" /\ call.joins[j].pc = "count"
    /\ IF Cardinality(getSettlementParticipants(call.participants)) >= 2
       THEN JoinEnds(j, 400)
       ELSE JoinGoes(j, "add")
    /\ UNCHANGED tables

\* await storage.addParticipant({..., role: "participant"})
Added(j, participants) ==
    /\ call' = [call EXCEPT
                  !.participants = participants,
                  !.joins[j].pc = "done",
                  !.joins[j].status = IF participants = call.participants
                                      THEN 400 ELSE 201]
    /\ UNCHANGED tables

AddParticipant(j) ==
    /\ call.op = "join" /\ call.joins[j].pc = "add"
    /\ Added(j, addParticipant(call.participants, call.joins[j].userId))

JoinCalls ==
    {[op |-> "join", participants |-> {}, create |-> "settlement",
      joins |-> [j \in Joins |-> [userId |-> who[j], pc |-> "existing", status |-> 0]]] :
        who \in [Joins -> Users]}

InitJoin == EmptyTables /\ call \in JoinCalls

NextJoin ==
    \/ InsertSettlement
    \/ InsertCreator
    \/ \E j \in Joins : CheckExisting(j)
    \/ \E j \in Joins : CountParticipants(j)
    \/ \E j \in Joins : AddParticipant(j)

SpecJoin == InitJoin /\ [][NextJoin]_vars

(***************************************************************************)
(* GET /api/ledger (routes.ts 627-680): the two debt-direction views and   *)
(* the summary of the lines, in the order storage returns them.  The       *)
(* totals and the net amount are Numbers.                                  *)
(***************************************************************************)
\* lines of one read
MaxReadLines == 3

OwedToPerson1(line) == line.owedPerson1 > 0
OwedToPerson2(line) == ~(line.owedPerson1 > 0) /\ line.owedPerson2 > 0

\* .filter((l) => !l.paidStatus).reduce((sum, l) => sum + parseFloat(...), 0)
RECURSIVE SumUnpaid(_, _, _)
SumUnpaid(lines, column, sum) ==
    IF lines = <<>> THEN sum
    ELSE SumUnpaid(Tail(lines), column,
            IF Head(lines).paidStatus THEN sum
            ELSE FAdd(sum, parseFloat(Head(lines)[column])))

NetDebtor(netAmount) ==
    IF FSign(netAmount) > 0 THEN Some("person2")
    ELSE IF FSign(netAmount) < 0 THEN Some("person1")
    ELSE None

\* Math.abs
FAbs(x) == IF x.m = <<>> THEN FZero ELSE [x EXCEPT !.sign = 1]

SummaryOf(total1, total2, netAmount) ==
    [totalPerson1Owed |-> total1, totalPerson2Owed |-> total2,
     netAmount |-> FAbs(netAmount), netDebtor |-> NetDebtor(netAmount)]

LedgerOfViews(lines1, lines2) ==
    [person1OwedLines |-> lines1, person2OwedLines |-> lines2,
     summary |-> SummaryOf(SumUnpaid(lines1, "owedPerson1", FZero),
                           SumUnpaid(lines2, "owedPerson2", FZero),
                           FSub(SumUnpaid(lines1, "owedPerson1", FZero),
                                SumUnpaid(lines2, "owedPerson2", FZero)))]

getLedger(lines) ==
    LedgerOfViews(SelectSeq(lines, OwedToPerson1), SelectSeq(lines, OwedToPerson2))

\* amounts of the lines read, in cents
ReadAmounts == {10, 20, 30}

ReadLine(owed1, owed2, paid) ==
    [owedPerson1 |-> owed1, owedPerson2 |-> owed2, paidStatus |-> paid]

\* a line owes one side, or nothing at all
ReadLines ==
    {ReadLine(a, 0, p) : a \in ReadAmounts, p \in BOOLEAN}
    \cup {ReadLine(0, a, p) : a \in ReadAmounts, p \in BOOLEAN}
    \cup {ReadLine(0, 0, FALSE)}

ReadCalls ==
    {[op |-> "getLedger", lines |-> ls, done |-> FALSE, result |-> None] :
        ls \in SeqsUpTo(ReadLines, MaxReadLines)}

DoGetLedger ==
    /\ call.op = "getLedger" /\ ~call.done
    /\ call' = [call EXCEPT !.done = TRUE, !.result = Some(getLedger(call.lines))]
    /\ UNCHANGED tables

InitRead == EmptyTables /\ call \in ReadCalls
SpecRead == InitRead /\ [][DoGetLedger]_vars

(***************************************************************************)
(* Reading the tables                                                      *)
(***************************************************************************)
Rows(table) == {table[i] : i \in 1..Len(table)}
LinesOf(lines, sourceType, sourceId) ==
    {l \in lines : l.sourceType = sourceType /\ l.sourceId = sourceId}
OwedAmounts(lines) == {<<l.owedPerson1, l.owedPerson2>> : l \in lines}

\* no request is between two of its storage calls
Quiet == call.op = "requests" /\ InFlight = {}

\* no request is in flight, and the recalculation of the last request that
\* had one completed with no storage call of another request between its own
Settled == Quiet /\ ledger = "ok" /\ call.alone

\* the step is the continuation of run r after its last storage call: the
\* handler answers, from the position pc
Responds(r, pc) ==
    /\ call.op = "requests"
    /\ call.runs[r].pc = pc
    /\ call'.runs[r].pc = "idle"

\* the step is the createOwedLine of run r for an asset, and it did not throw
InsertsAssetLine(r) ==
    /\ call.op = "requests"
    /\ call.runs[r].pc = "insert" /\ call.runs[r].kind = "asset"
    /\ call'.runs[r].pc \notin {"insert", "threw"}

\* the lines of the step that were not there before it
InsertedLines == {l \in owedLines' : \A k \in owedLines : k.id # l.id}

(***************************************************************************)
(* Properties                                                              *)
(***************************************************************************)
OtherPerson(p) == IF p = "person1" THEN "person2" ELSE "person1"

ExpenseDone == call.op = "calculateExpenseOwed" /\ call.done
AssetDone == call.op = "calculateAssetBuyback" /\ call.done

\* the percentages that apply to the expense of the call
CallExpensePct == ExpensePct(call.expense, call.periods)

\* C1: sum invariant.  For an expense with a positive total and an
\* applicable person1 percentage within [0,100], the amount owed when
\* person1 paid plus the amount owed when person2 paid is the total, to the
\* cent.
Thm_C1 ==
    (/\ ExpenseDone
     /\ call.expense.totalAmount > 0
     /\ InRange(CallExpensePct.person1Pct))
    => LET e     == call.expense
           r     == Val(call.result)
           o     == calculateExpenseOwed(
                        [e EXCEPT !.paidBy = OtherPerson(e.paidBy)], call.periods)
           paid1 == IF e.paidBy = "person1" THEN r ELSE o
           paid2 == IF e.paidBy = "person2" THEN r ELSE o
       IN  /\ paid1.owedPerson1 + paid2.owedPerson2 = e.totalAmount
           /\ paid1.owedPerson2 = 0
           /\ paid2.owedPerson1 = 0

\* a one-cent expense at the 50/50 default, paid by person2
Witness_C1 ==
    /\ ExpenseDone
    /\ call.expense.totalAmount = 1
    /\ call.expense.paidBy = "person2"
    /\ call.periods = <<>>
    /\ ~IsSet(call.expense.manualPerson1SharePct)
    /\ Val(call.result) = [owedPerson1 |-> 0, owedPerson2 |-> 0]

\* C2 as claimed: exactly one of the two owed amounts is nonzero, and it is
\* the amount owed to the payer.
Cex_C2 ==
    ExpenseDone
    => LET r == Val(call.result)
       IN  /\ (r.owedPerson1 # 0) # (r.owedPerson2 # 0)
           /\ (r.owedPerson1 # 0) <=> (call.expense.paidBy = "person1")
           /\ (r.owedPerson2 # 0) <=> (call.expense.paidBy = "person2")

\* C2 amended: at most one of the two owed amounts is nonzero; the amount
\* owed to the party who did not pay is always zero, and the amount owed to
\* the payer is the other party's share, which is zero as well when that
\* share is zero (person1 paid at 100/0, a one-cent total at 50/50 paid by
\* person2).
Thm_C2 ==
    ExpenseDone
    => LET e      == call.expense
           r      == Val(call.result)
           share1 == ShareOf(e.totalAmount, CallExpensePct.person1Pct)
       IN  /\ ~(r.owedPerson1 # 0 /\ r.owedPerson2 # 0)
           /\ e.paidBy = "person1"
                => r.owedPerson2 = 0 /\ r.owedPerson1 = e.totalAmount - share1
           /\ e.paidBy = "person2"
                => r.owedPerson1 = 0 /\ r.owedPerson2 = share1

\* person1 paid an expense that a covering 100/0 period assigns to person1
Witness_C2 ==
    /\ ExpenseDone
    /\ call.expense.paidBy = "person1"
    /\ call.expense.totalAmount = 109
    /\ CallExpensePct.person1Pct = 10000
    /\ call.periods # <<>>
    /\ Val(call.result) = [owedPerson1 |-> 0, owedPerson2 |-> 0]

\* C3 as claimed: in every state of the ledger every stored line has exactly
\* one of owedPerson1 / owedPerson2 nonzero.
Cex_C3 ==
    \A l \in owedLines : (l.owedPerson1 # 0) # (l.owedPerson2 # 0)

\* C3 amended: in every state of the ledger no stored line has both
\* owedPerson1 and owedPerson2 nonzero; both amounts are zero when the
\* share of the debtor rounds to zero.
Thm_C3 ==
    \A l \in owedLines : ~(l.owedPerson1 # 0 /\ l.owedPerson2 # 0)

\* the line of a one-cent expense with both amounts zero, next to the line
\* of an asset that owes its buyback to person2
Witness_C3 ==
    /\ \E l \in owedLines :
          l.sourceType = "expense" /\ l.owedPerson1 = 0 /\ l.owedPerson2 = 0
    /\ \E l \in owedLines :
          l.sourceType = "asset" /\ l.owedPerson1 = 0 /\ l.owedPerson2 > 0

\* C4 as claimed: when the value scaled to cents has a fractional part of
\* exactly one half (a three-decimal literal ending in 5), the resulting
\* count of cents is even.
Cex_C4 ==
    (call.op = "bankersRound" /\ call.done /\ call.milli % 10 = 5)
    => Val(call.result) % 2 = 0

\* the complete manual override of the record of the call, if any
CallManual ==
    IF call.op = "calculateExpenseOwed"
    THEN <<call.expense.manualPerson1SharePct, call.expense.manualPerson2SharePct>>
    ELSE <<call.asset.manualOriginalPerson1SharePct,
           call.asset.manualOriginalPerson2SharePct>>

\* a single open-ended period that carries the manual percentages
ManualAsPeriod ==
    <<PeriodRow(0, 1, None, <<Val(CallManual[1]), Val(CallManual[2])>>)>>

\* C5: manual-override precedence.  With both manual percentages present
\* the result is the one computed from exactly those percentages, whatever
\* the periods are and whether or not one covers the date of the record.
Thm_C5 ==
    ((ExpenseDone \/ AssetDone) /\ IsSet(CallManual[1]) /\ IsSet(CallManual[2]))
    => IF call.op = "calculateExpenseOwed"
       THEN LET plain == [call.expense EXCEPT !.manualPerson1SharePct = None,
                                              !.manualPerson2SharePct = None]
            IN  /\ Val(call.result) = calculateExpenseOwed(call.expense, <<>>)
                /\ Val(call.result) = calculateExpenseOwed(plain, ManualAsPeriod)
       ELSE LET plain == [call.asset EXCEPT !.manualOriginalPerson1SharePct = None,
                                            !.manualOriginalPerson2SharePct = None]
            IN  /\ Val(call.result) = calculateAssetBuyback(call.asset, <<>>)
                /\ Val(call.result) = calculateAssetBuyback(plain, ManualAsPeriod)

\* a manual 0 / 100 override on an expense whose date a 60/40 period covers
Witness_C5 ==
    /\ ExpenseDone
    /\ call.expense.manualPerson1SharePct = Some(0)
    /\ call.expense.manualPerson2SharePct = Some(10000)
    /\ call.expense.paidBy = "person2"
    /\ \E i \in 1..Len(call.periods) :
          /\ Covers(call.periods[i], call.expense.date)
          /\ call.periods[i].person1SharePct = 6000
    /\ Val(call.result) = [owedPerson1 |-> 0, owedPerson2 |-> 0]

\* no complete manual override and no period covering the date
Unresolvable(manual1, manual2, date) ==
    /\ ~IsSet(manual1) \/ ~IsSet(manual2)
    /\ findSplitPeriod(date, splitPeriods) = None

\* the record with an explicit 50 / 50 override in place of its own
HalfExpense(e) ==
    [e EXCEPT !.manualPerson1SharePct = Some(5000),
              !.manualPerson2SharePct = Some(5000)]
HalfAsset(a) ==
    [a EXCEPT !.manualOriginalPerson1SharePct = Some(5000),
              !.manualOriginalPerson2SharePct = Some(5000)]

\* C6: an unresolvable split is not an error.  For an expense or asset with
\* no complete manual override and no period covering its date the
\* calculator returns the 50/50 result; a recalculation that threw did so at
\* an asset with a value and a keeper but no valuation date, never for the
\* missing split; and when the last recalculation completed, no other
\* request having come between its storage calls, the record has exactly
\* one line, with the 50/50 amounts.
Thm_C6 ==
    /\ \A r \in Runs :
          (call.op = "requests" /\ call.runs[r].pc = "threw")
          => /\ call.runs[r].kind = "asset"
             /\ IsSet(Current(call.runs[r]).currentEstimatedValue)
             /\ IsSet(Current(call.runs[r]).keptBy)
             /\ ~IsSet(Current(call.runs[r]).valuationDate)
    /\ (Quiet /\ call.alone /\ ledger = "threw")
         => \E a \in Rows(assets) :
               /\ IsSet(a.currentEstimatedValue) /\ IsSet(a.keptBy)
               /\ ~IsSet(a.valuationDate)
    /\ \A e \in Rows(expenses) :
          Unresolvable(e.manualPerson1SharePct, e.manualPerson2SharePct, e.date)
          => /\ calculateExpenseOwed(e, splitPeriods)
                  = calculateExpenseOwed(HalfExpense(e), <<>>)
             /\ Settled
                  => \E l \in owedLines :
                        /\ LinesOf(owedLines, "expense", e.id) = {l}
                        /\ [owedPerson1 |-> l.owedPerson1,
                            owedPerson2 |-> l.owedPerson2]
                             = calculateExpenseOwed(HalfExpense(e), <<>>)
    /\ \A a \in Rows(assets) :
          (/\ Unresolvable(a.manualOriginalPerson1SharePct,
                           a.manualOriginalPerson2SharePct, a.purchaseDate)
           /\ IsSet(a.currentEstimatedValue) /\ IsSet(a.keptBy))
          => /\ calculateAssetBuyback(a, splitPeriods) # None
             /\ calculateAssetBuyback(a, splitPeriods)
                  = calculateAssetBuyback(HalfAsset(a), <<>>)
             /\ (Settled /\ IsSet(a.valuationDate))
                  => \E l \in owedLines :
                        /\ LinesOf(owedLines, "asset", a.id) = {l}
                        /\ l.owedPerson1
                             = Val(calculateAssetBuyback(HalfAsset(a), <<>>)).owedPerson1
                        /\ l.owedPerson2
                             = Val(calculateAssetBuyback(HalfAsset(a), <<>>)).owedPerson2

\* an expense of 1.09 with half a manual override, paid by person1 on a day
\* before the period starts: its line owes person1 the 0.54 that 50/50 leaves to person2
Witness_C6 ==
    /\ Settled
    /\ \E p \in Rows(splitPeriods) : p.startDate = 2
    /\ \E e \in Rows(expenses) :
          /\ e.totalAmount = 109 /\ e.date = 1 /\ e.paidBy = "person1"
          /\ IsSet(e.manualPerson1SharePct) /\ ~IsSet(e.manualPerson2SharePct)
          /\ \E l \in LinesOf(owedLines, "expense", e.id) :
                l.owedPerson1 = 54 /\ l.owedPerson2 = 0

\* indexes of the periods of the call whose inclusive range holds the date
CoveringIndexes ==
    {i \in 1..Len(call.periods) :
        /\ call.periods[i].startDate <= call.date
        /\ \/ call.periods[i].endDate = None
           \/ call.date <= Val(call.periods[i].endDate)}

\* C7: findSplitPeriod returns the first period of the list whose inclusive
\* range holds the date, and null exactly when there is none.
Thm_C7 ==
    (call.op = "findSplitPeriod" /\ call.done)
    => IF CoveringIndexes = {}
       THEN Val(call.result) = None
       ELSE LET first == CHOOSE i \in CoveringIndexes :
                             \A j \in CoveringIndexes : i <= j
            IN  Val(call.result) = Some(call.periods[first])

\* two different periods cover the date, which is the last day of the first
Witness_C7 ==
    /\ call.op = "findSplitPeriod" /\ call.done
    /\ Len(call.periods) = 2
    /\ CoveringIndexes = {1, 2}
    /\ call.periods[1] # call.periods[2]
    /\ call.periods[1].endDate = Some(call.date)
    /\ Val(call.result) = Some(call.periods[1])

\* round-half-to-even of amount * pct / 100 in exact decimal arithmetic,
\* in cents (amount in cents, pct in hundredths of a percent)
RoundCentsExact(amount, pct) ==
    LET num == amount * pct
        q   == num \div 10000
        r   == num % 10000
    IN  IF r < 5000 THEN q
        ELSE IF r > 5000 THEN q + 1
        ELSE IF q % 2 = 0 THEN q ELSE q + 1

\* C8 as claimed: the buyback is the half-even rounding of
\* currentEstimatedValue * otherPct / 100, otherPct being the percentage of
\* the party who does not keep the asset, and the keeper owes it to the
\* other party.
Cex_C8 ==
    (AssetDone /\ IsSet(call.asset.currentEstimatedValue) /\ IsSet(call.asset.keptBy))
    => LET a        == call.asset
           pct      == ResolvePct(a.manualOriginalPerson1SharePct,
                                  a.manualOriginalPerson2SharePct,
                                  a.purchaseDate, call.periods)
           otherPct == IF Val(a.keptBy) = "person1"
                       THEN pct.person2Pct ELSE pct.person1Pct
           buyback  == RoundCentsExact(Val(a.currentEstimatedValue), otherPct)
       IN  /\ call.result # Some(None)
           /\ Val(Val(call.result)).buyback = buyback
           /\ Val(a.keptBy) = "person1"
                => /\ Val(Val(call.result)).owedPerson2 = buyback
                   /\ Val(Val(call.result)).owedPerson1 = 0
           /\ Val(a.keptBy) = "person2"
                => /\ Val(Val(call.result)).owedPerson1 = buyback
                   /\ Val(Val(call.result)).owedPerson2 = 0

\* the periods that cover the date, in storage order
CoveringPeriods(periods, date) ==
    LET covers(p) == Covers(p, date) IN SelectSeq(periods, covers)

\* the amounts of a buyback
OriginalShares(buybackInfo) ==
    <<Val(buybackInfo).owedPerson1, Val(buybackInfo).owedPerson2>>

\* C9: buyback uses original shares.  Every buyback line a recalculation
\* inserts has the amounts, and with them the direction, computed from the
\* asset and from the periods covering its purchaseDate alone, and so has
\* the line of every asset once a recalculation has completed on its own:
\* a request that creates or updates periods that do not cover the
\* purchaseDate, followed by its recalculation, writes the same amounts
\* again, whatever period covers the valuationDate.
Thm_C9 ==
    /\ [](Settled
            => \A a \in Rows(assets) :
                  (LinesOf(owedLines, "asset", a.id) # {})
                  => OwedAmounts(LinesOf(owedLines, "asset", a.id))
                       = {OriginalShares(
                            calculateAssetBuyback(a,
                               CoveringPeriods(splitPeriods, a.purchaseDate)))})
    /\ [][\A r \in Runs :
            InsertsAssetLine(r)
            => \E l \in InsertedLines :
                  /\ l.sourceType = "asset"
                  /\ l.sourceId = Current(call.runs[r]).id
                  /\ <<l.owedPerson1, l.owedPerson2>>
                       = OriginalShares(
                            calculateAssetBuyback(Current(call.runs[r]),
                               CoveringPeriods(call.runs[r].snap.periods,
                                  Current(call.runs[r]).purchaseDate)))]_vars

\* the asset bought on day 1 and valued on day 2 still owes person2 the
\* 50/50 buyback after the period that starts on day 2 was set to 150/0
Witness_C9 ==
    /\ Settled /\ response = 200
    /\ \E p \in Rows(splitPeriods) : p.startDate = 2 /\ p.person1SharePct = 15000
    /\ \E a \in Rows(assets) :
          /\ a.purchaseDate = 1 /\ a.valuationDate = Some(2)
          /\ a.keptBy = Some("person1")
          /\ OwedAmounts(LinesOf(owedLines, "asset", a.id)) = {<<0, 55>>}

\* C10 as claimed: missing valuation data yields no ledger presence.  For
\* an asset whose currentEstimatedValue or keptBy is unset
\* calculateAssetBuyback returns null, and once the recalculations have
\* completed the ledger holds no line of that asset.
Cex_C10 ==
    \A a \in Rows(assets) :
        (~IsSet(a.currentEstimatedValue) \/ ~IsSet(a.keptBy))
        => /\ calculateAssetBuyback(a, splitPeriods) = None
           /\ (Quiet /\ ledger = "ok") => LinesOf(owedLines, "asset", a.id) = {}

\* the fields of a line other than its generated id
LineFields(l) ==
    [sourceType |-> l.sourceType, sourceId |-> l.sourceId, date |-> l.date,
     totalAmount |-> l.totalAmount, owedPerson1 |-> l.owedPerson1,
     owedPerson2 |-> l.owedPerson2, paidStatus |-> l.paidStatus]

\* the two sets hold the same lines, as many times each, ids aside
SameLines(a, b) ==
    /\ Cardinality(a) = Cardinality(b)
    /\ \A l \in a :
          Cardinality({x \in a : LineFields(x) = LineFields(l)})
            = Cardinality({x \in b : LineFields(x) = LineFields(l)})

\* recalculateLedger on the tables as they are, and once more on its result
RecalculatedOnce == recalculateLedger(expenses, assets, splitPeriods, owedLines)
RecalculatedTwice ==
    recalculateLedger(expenses, assets, splitPeriods, RecalculatedOnce.lines)

\* C11: idempotence of recalculate.  With the source tables as they are and
\* no request in flight, a second recalculation right after a first ends as
\* the first did and leaves the same lines in every field but the id; a
\* recalculation after the one of the last request, which ran on its own,
\* ends as that one did, and the lines a completed one left are, paidStatus
\* aside, the lines a further one leaves.
Thm_C11 ==
    Quiet
    => /\ RecalculatedTwice.ledger = RecalculatedOnce.ledger
       /\ SameLines(RecalculatedTwice.lines, RecalculatedOnce.lines)
       /\ (call.alone /\ ledger # "skipped") => RecalculatedOnce.ledger = ledger
       /\ Settled
            => SameLines(RecalculatedOnce.lines,
                         {[l EXCEPT !.paidStatus = FALSE] : l \in owedLines})

\* an expense line marked paid next to the line of an asset: the first
\* recalculation changes the ledger, the second does not
Witness_C11 ==
    /\ Settled
    /\ \E l \in owedLines : l.sourceType = "expense" /\ l.paidStatus
    /\ \E l \in owedLines : l.sourceType = "asset"
    /\ RecalculatedOnce.lines # owedLines
    /\ RecalculatedTwice.lines = RecalculatedOnce.lines

\* C12 as claimed: paidStatus survives recomputation.  Once a user has
\* marked the line of a source record paid and not set it back, the line
\* of that record is marked paid whenever the recalculations have completed.
Cex_C12 ==
    Quiet
    => \A source \in call.paid :
          \A l \in LinesOf(owedLines, source[1], source[2]) : l.paidStatus

\* C13 as claimed: recalculate resets paidStatus.  Right after a
\* recalculation has completed, every line of the settlement has paidStatus
\* false.
Cex_C13 ==
    [][\A r \in Runs :
          Responds(r, "done") => \A l \in owedLines' : ~l.paidStatus]_vars


\* the source records of the settlement that have a computed result
Computable ==
    {<<"expense", e.id>> : e \in Rows(expenses)}
    \cup {<<"asset", a.id>> :
            a \in {x \in Rows(assets) :
                     /\ calculateAssetBuyback(x, splitPeriods) # None
                     /\ IsSet(x.valuationDate)}}

\* C14 as claimed: atomic replace relative to readers.  What a read of the
\* ledger returns while recalculations run holds exactly one line for every
\* source record that has a computed result.
Cex_C14 ==
    call.op = "recalculateLedger"
    => \A src \in Computable :
          Cardinality(LinesOf(call.seen, src[1], src[2])) = 1

AllRunsEnded ==
    /\ call.op = "recalculateLedger"
    /\ \A r \in Runs : call.runs[r].pc \in {"done", "threw"}

\* C15 as claimed: concurrent recomputes do not duplicate or orphan lines.
\* Once every run has ended there is at most one line per source record
\* and every line refers to a record of the settlement.
Cex_C15 ==
    AllRunsEnded
    => /\ \A l \in owedLines :
             Cardinality(LinesOf(owedLines, l.sourceType, l.sourceId)) <= 1
       /\ \A l \in owedLines :
             \/ l.sourceType = "expense" /\ HasRow(expenses, l.sourceId)
             \/ l.sourceType = "asset" /\ HasRow(assets, l.sourceId)

\* the amounts of the one line of the source record, if it has exactly one
OneLineOwes(sourceType, sourceId, owed) ==
    \E l \in owedLines :
        /\ LinesOf(owedLines, sourceType, sourceId) = {l}
        /\ l.owedPerson1 = owed.owedPerson1
        /\ l.owedPerson2 = owed.owedPerson2

\* the lines are the full derivation from the source tables
FullyDerived ==
    /\ \A e \in Rows(expenses) :
          OneLineOwes("expense", e.id, calculateExpenseOwed(e, splitPeriods))
    /\ \A a \in Rows(assets) :
          IF calculateAssetBuyback(a, splitPeriods) = None
          THEN LinesOf(owedLines, "asset", a.id) = {}
          ELSE OneLineOwes("asset", a.id, Val(calculateAssetBuyback(a, splitPeriods)))
    /\ \A l \in owedLines :
          \/ l.sourceType = "expense" /\ HasRow(expenses, l.sourceId)
          \/ l.sourceType = "asset" /\ HasRow(assets, l.sourceId)

\* C16 as claimed: the ledger is always fully derived.  When the create,
\* update and valuation requests run one after the other, the lines are the
\* full derivation from the source tables after each of them has returned.
Cex_C16 ==
    (Quiet /\ call.alone /\ ledger # "skipped") => FullyDerived

ReadDone == call.op = "getLedger" /\ call.done

\* the sum, in cents, of the unpaid lines that owe the side of the column
RECURSIVE UnpaidCents(_, _)
UnpaidCents(lines, column) ==
    IF lines = <<>> THEN 0
    ELSE UnpaidCents(Tail(lines), column)
           + (IF Head(lines).paidStatus THEN 0 ELSE Head(lines)[column])

\* the Number is the one that the decimal amount of so many cents denotes
IsAmount(x, cents) == FSign(FSub(x, parseFloat(cents))) = 0

\* C17 as claimed: net summary.  With the per-side sums of the unpaid lines,
\* the reported netAmount is the absolute value of their difference, and
\* netDebtor is person2 when person1 is owed more, person1 when person1 is
\* owed less, and none when the two sums are equal.
Cex_C17 ==
    ReadDone
    => LET sum1 == UnpaidCents(Val(call.result).person1OwedLines, "owedPerson1")
           sum2 == UnpaidCents(Val(call.result).person2OwedLines, "owedPerson2")
           r    == Val(call.result).summary
       IN  /\ IsAmount(r.netAmount, Abs(sum1 - sum2))
           /\ r.netDebtor = IF sum1 > sum2 THEN Some("person2")
                            ELSE IF sum1 < sum2 THEN Some("person1")
                            ELSE None


\* the lines of the read that owe a side, paid or not, in the order read
OwingLines(column) == SelectSeq(call.lines, LAMBDA line : line[column] > 0)

\* C18 as claimed: only unpaid lines count toward the totals.  Each side's
\* total is the sum of the amounts of its unpaid lines, so that marking a
\* line paid lowers the total by exactly the line's amount and marking it
\* unpaid restores it, while the line stays listed in its view either way.
Cex_C18 ==
    ReadDone
    => LET r == Val(call.result)
       IN  /\ r.person1OwedLines = OwingLines("owedPerson1")
           /\ r.person2OwedLines = OwingLines("owedPerson2")
           /\ IsAmount(r.summary.totalPerson1Owed,
                       UnpaidCents(r.person1OwedLines, "owedPerson1"))
           /\ IsAmount(r.summary.totalPerson2Owed,
                       UnpaidCents(r.person2OwedLines, "owedPerson2"))


\* a request to update a record or a line under an id that no row has
NotFoundUpdate ==
    \/ \E id \in RowIds, body \in PeriodUpdates :
          ~HasRow(splitPeriods, id) /\ UpdateSplitPeriod(id, body)
    \/ \E id \in RowIds, body \in ExpenseUpdates :
          ~HasRow(expenses, id) /\ UpdateExpense(id, body)
    \/ \E id \in RowIds, body \in AssetUpdates :
          ~HasRow(assets, id) /\ UpdateAsset(id, body)
    \/ \E id \in RowIds, body \in ValuationUpdates :
          ~HasRow(assets, id) /\ UpdateValuation(id, body)
    \/ \E id \in LineIds, paid \in BOOLEAN :
          (\A l \in owedLines : l.id # id) /\ SetPaidStatus(id, paid)

\* the step answers with an error status, or leaves the request at its
\* answer of 400, and moves no other request
Refused ==
    \/ response' \in {400, 404} /\ call'.runs = call.runs
    \/ /\ response' = response
       /\ \E r \in Runs :
             /\ call.runs[r].pc = "idle"
             /\ call'.runs = [call.runs EXCEPT ![r] = Answering(400)]

\* C19: not-found is local and side-effect free.  An update request that
\* names a SplitPeriod, Expense, Asset or OwedLine id that no row has is
\* answered with an error status and leaves every source record and every
\* OwedLine as it was, in the step that finds no row and in the step of its
\* answer: no row is created and no recalculation begins, so the requests
\* after it, and those in flight, go on from the state the request found.
Thm_C19 ==
    [][/\ NotFoundUpdate
            => /\ Refused
               /\ UNCHANGED <<splitPeriods, expenses, assets, owedLines, ledger>>
       /\ \A r \in Runs :
             (Responds(r, "answer") /\ call.runs[r].status = 400)
             => /\ response' = 400
                /\ UNCHANGED <<splitPeriods, expenses, assets, owedLines, ledger>>]_vars

\* an update was refused for its id while a line marked paid is stored
Witness_C19 == response = 404 /\ \E l \in owedLines : l.paidStatus


\* C20 as claimed: validation happens before the engine.  After any sequence
\* of create, update and import requests every stored Expense and Asset has
\* a positive amount and every stored percentage, of a SplitPeriod or of a
\* manual override, lies within [0,100].
Cex_C20 ==
    /\ \A p \in Rows(splitPeriods) :
          InRange(p.person1SharePct) /\ InRange(p.person2SharePct)
    /\ \A e \in Rows(expenses) :
          /\ e.totalAmount > 0
          /\ IsSet(e.manualPerson1SharePct) => InRange(Val(e.manualPerson1SharePct))
          /\ IsSet(e.manualPerson2SharePct) => InRange(Val(e.manualPerson2SharePct))
    /\ \A a \in Rows(assets) :
          /\ a.purchasePrice > 0
          /\ IsSet(a.manualOriginalPerson1SharePct)
                => InRange(Val(a.manualOriginalPerson1SharePct))
          /\ IsSet(a.manualOriginalPerson2SharePct)
                => InRange(Val(a.manualOriginalPerson2SharePct))


\* C21 as claimed: OwedLine amounts are never negative.  In every reachable
\* ledger state every line has owedPerson1 >= 0 and owedPerson2 >= 0.
Cex_C21 == \A l \in owedLines : l.owedPerson1 >= 0 /\ l.owedPerson2 >= 0


\* the assets with both currentEstimatedValue and keptBy set
ResolvedAssets ==
    {a \in Rows(assets) : IsSet(a.currentEstimatedValue) /\ IsSet(a.keptBy)}

\* C22 as claimed: every resolved asset gets its line and the rebuild
\* completes.  After a request that recalculated with no other request
\* between its storage calls, and with a resolved asset stored, the
\* recalculation ran to completion and left exactly one line for the asset,
\* dated at its valuationDate and with totalAmount equal to its
\* currentEstimatedValue.
Cex_C22 ==
    (Quiet /\ call.alone /\ ledger # "skipped")
    => \A a \in ResolvedAssets :
          /\ ledger = "ok"
          /\ IsSet(a.valuationDate)
          /\ \E l \in owedLines :
                /\ LinesOf(owedLines, "asset", a.id) = {l}
                /\ l.date = Val(a.valuationDate)
                /\ l.totalAmount = Val(a.currentEstimatedValue)


\* the one line of the source record carries the date and the amount
OneLineDated(sourceType, sourceId, date, total) ==
    \E l \in owedLines :
        /\ LinesOf(owedLines, sourceType, sourceId) = {l}
        /\ l.date = date
        /\ l.totalAmount = total

\* C23: one line per source after a rebuild.  When the recalculation of the
\* last request ran alone, no storage call of another request between its
\* own, and completed, the ledger holds exactly one line for every expense,
\* with the expense's date and totalAmount, and at most one for every
\* asset, with the asset's valuationDate and currentEstimatedValue.
Thm_C23 ==
    Settled
    => /\ \A e \in Rows(expenses) :
             OneLineDated("expense", e.id, e.date, e.totalAmount)
       /\ \A a \in Rows(assets) :
             \/ LinesOf(owedLines, "asset", a.id) = {}
             \/ /\ IsSet(a.valuationDate) /\ IsSet(a.currentEstimatedValue)
                /\ OneLineDated("asset", a.id, Val(a.valuationDate),
                                Val(a.currentEstimatedValue))

\* a completed rebuild over an expense and a valued asset bought earlier
Witness_C23 ==
    /\ Settled
    /\ expenses # <<>>
    /\ \E a \in Rows(assets) :
          /\ LinesOf(owedLines, "asset", a.id) # {}
          /\ Val(a.valuationDate) # a.purchaseDate


\* the lines of a view, as a set
Listed(view) == {view[i] : i \in 1..Len(view)}

\* C24 as claimed: the ledger read shows every line once.  Every line the
\* query returned is listed in exactly one of the two views: none is left
\* out of both and none is in both.
Cex_C24 ==
    ReadDone
    => LET r == Val(call.result)
       IN  /\ Len(r.person1OwedLines) + Len(r.person2OwedLines) = Len(call.lines)
           /\ \A i \in 1..Len(call.lines) :
                 (call.lines[i] \in Listed(r.person1OwedLines))
                     # (call.lines[i] \in Listed(r.person2OwedLines))


\* the step is the updateOwedLine of PATCH /api/ledger/:id/paid on a line
\* that exists, and it changed nothing but the paidStatus of that line
PaidStatusOnly(id, paid) ==
    ((\E l \in owedLines : l.id = id) /\ SetPaidStatus(id, paid))
    => /\ UNCHANGED <<splitPeriods, expenses, assets, ledger, response>>
       /\ \A r \in Runs :
             \/ call'.runs[r].pc = call.runs[r].pc
             \/ call.runs[r].pc = "idle" /\ call'.runs[r] = Answering(200)
       /\ {l \in owedLines' : l.id # id} = {l \in owedLines : l.id # id}
       /\ {l \in owedLines' : l.id = id}
            = {[l EXCEPT !.paidStatus = paid] : l \in {k \in owedLines : k.id = id}}

\* C25: setPaidStatus frame.  Setting the paid status of an existing line
\* changes only that line's paidStatus: its other fields, every other line
\* and all expenses, assets and split periods stay as they are, and no
\* recalculation begins or moves; the answer of the request is 200 and
\* changes no table.
Thm_C25 ==
    [][/\ \A id \in LineIds, paid \in BOOLEAN : PaidStatusOnly(id, paid)
       /\ \A r \in Runs :
             (Responds(r, "answer") /\ call.runs[r].status = 200)
             => /\ response' = 200
                /\ UNCHANGED <<splitPeriods, expenses, assets, owedLines, ledger>>]_vars

\* one line was marked paid while another line stays unpaid
Witness_C25 ==
    /\ response = 200
    /\ \E l \in owedLines : l.paidStatus
    /\ \E l \in owedLines : ~l.paidStatus


\* the line carries the amounts that the expense, as stored now, gives
DerivedFrom(l, e, owed) ==
    /\ l.date = e.date /\ l.totalAmount = e.totalAmount
    /\ l.owedPerson1 = owed.owedPerson1 /\ l.owedPerson2 = owed.owedPerson2

\* C26 as claimed: no stale rebuild wins.  Once two overlapping update
\* requests have both completed, no line of an expense remains that was
\* computed from a snapshot older than the other request's write: every
\* such line carries the amounts of the expense as it is stored.
Cex_C26 ==
    AllRunsEnded
    => \A l \in owedLines : \A e \in Rows(expenses) :
          (l.sourceType = "expense" /\ l.sourceId = e.id)
          => DerivedFrom(l, e, calculateExpenseOwed(e, splitPeriods))


\* every source record that has a computed result has exactly one line
EverySourceHasLine ==
    \A c \in Computable : Cardinality(LinesOf(owedLines, c[1], c[2])) = 1

\* C27 as claimed: CSV import keeps the ledger consistent with the source
\* records.  When an import request that no other request overlapped has
\* ended, with success or with a failure on some row, every stored expense
\* has exactly one line and so has every asset with a computable buyback.
Cex_C27 ==
    [][\A r \in Runs :
          (/\ \E pc \in {"done", "threw", "aborted"} : Responds(r, pc)
           /\ call.runs[r].type # "none" /\ call.runs[r].alone)
          => EverySourceHasLine']_vars


\* the participants of the settlement with the role
WithRole(role) == {p \in call.participants : p.role = role}

\* C28 as claimed: two-party cap.  Under every interleaving of join requests
\* the settlement has at most two participants, at most one of them with
\* role creator and at most one with role participant.
Cex_C28 ==
    (call.op = "join")
    => /\ Cardinality(call.participants) <= 2
       /\ Cardinality(WithRole("creator")) <= 1
       /\ Cardinality(WithRole("participant")) <= 1


\* no day lies in the ranges of two periods of the list; an open range
\* reaches every later day, so that the days up to the last start decide
NonOverlapping(periods) ==
    \A i, j \in 1..Len(periods) :
        i # j => \A d \in 1..(MaxDate + 1) :
                    ~(Covers(periods[i], d) /\ Covers(periods[j], d))

\* the list in the order the permutation gives
Reordered(periods, p) == [i \in 1..Len(periods) |-> periods[p[i]]]

\* C29: order independence on well-formed periods.  When the periods are
\* pairwise non-overlapping, findSplitPeriod returns the same period, or
\* null, for the date under every permutation of the list.
Thm_C29 ==
    (call.op = "findSplitPeriod" /\ call.done /\ NonOverlapping(call.periods))
    => \A p \in Permutations(1..Len(call.periods)) :
          findSplitPeriod(call.date, Reordered(call.periods, p)) = Val(call.result)

\* two periods that do not overlap, the second of which holds the date
Witness_C29 ==
    /\ call.op = "findSplitPeriod" /\ call.done
    /\ Len(call.periods) = 2
    /\ NonOverlapping(call.periods)
    /\ IsSet(call.periods[1].endDate)
    /\ Val(call.periods[1].endDate) >= call.periods[1].startDate
    /\ Val(call.result) = Some(call.periods[2])


\* the expense of the call with the percentages given as a manual override
CallExpenseWith(person1Pct, person2Pct) ==
    [call.expense EXCEPT !.manualPerson1SharePct = Some(person1Pct),
                         !.manualPerson2SharePct = Some(person2Pct)]

\* the result does not change with the person2 percentage applied
IgnoresPerson2Pct ==
    \A q \in {0, 2500, 4000, 10000} :
        calculateExpenseOwed(CallExpenseWith(CallExpensePct.person1Pct, q), <<>>)
            = Val(call.result)

\* C30 as claimed: the expense split ignores person2's percentage.  The
\* owed amounts are the same whatever the person2 percentage is, and the
\* amount owed to person1, when person1 paid, is the total less
\* roundCents(total * person1Pct / 100).
Cex_C30 ==
    ExpenseDone
    => /\ IgnoresPerson2Pct
       /\ call.expense.paidBy = "person1"
            => Val(call.result).owedPerson1
                 = call.expense.totalAmount
                     - RoundCentsExact(call.expense.totalAmount, CallExpensePct.person1Pct)

====
